---- MODULE Spec2Model ----
(***************************************************************************)
(* A model of timeln (EthanJamesLew/timeln): TimelnContext::new, the       *)
(* processing loop of TimelnContext::run, the Ctrl-C handler that run()    *)
(* registers, and TimelnContext::summarize_and_plot.                       *)
(*                                                                         *)
(* Two threads are modelled: the main thread (program counter pc) and the  *)
(* thread on which the ctrlc crate invokes the registered closure          *)
(* (program counter hpc).  The three std::sync::Mutex objects              *)
(* (total_lines, total_matches, rx) are modelled with an owner and a       *)
(* poison flag; a guard dropped while its thread is panicking poisons the  *)
(* mutex.  Text is a sequence of characters "x", "y" and "nl" (newline);   *)
(* time is an integer monotonic clock.                                     *)
(***************************************************************************)
EXTENDS Integers, Sequences, FiniteSets, TLC

\* ------------------------------------------------------------------ bounds
MaxBytes == 4
MaxClock == 1
MaxCount == 3
MaxLow == 5
MaxHigh == 1

\* ------------------------------------------------------------------ state
VARIABLES
    opt,            \* TimelnOpt { regex, plot } (color is not modelled)
    stdin,          \* the bytes of the line source
    pos,            \* how many of them read_line has consumed
    buffer,         \* run(): let mut buffer
    regex,          \* TimelnContext.regex: <<>> is None, <<p>> is Some(p)
    pc,             \* position of the main thread
    result,         \* what main returns: "none" while it is still running
    proc,           \* "running" or "exited"
    exit_code,      \* process exit status, -1 while running
    hpc,            \* position of the Ctrl-C handler thread
    handler_set,    \* ctrlc::set_handler has registered the closure
    total_lines,    \* value inside TimelnContext.total_lines
    total_matches,  \* value inside TimelnContext.total_matches
    lines_mx,       \* the Mutex of total_lines  [owner, poisoned]
    matches_mx,     \* the Mutex of total_matches
    rx_mx,          \* the Mutex of rx
    rx,             \* snapshots sent on tx and not yet received from rx
    rx_alive,       \* the Receiver that tx sends to has not been dropped
    sent,           \* number of successful tx.send calls
    sent_log,       \* history: the snapshots sent, in the order of the sends
    drains,         \* history: number of rx_lock.try_iter().collect() calls
    out,            \* standard output, one record per println!
    files,          \* plot files written, one record per plot_* call
    clock,          \* Instant::now()
    start_time,     \* TimelnContext.start_time
    last_time,      \* run(): let mut last_time
    now,            \* run(): let now / summarize_and_plot(): let now
    delta,          \* run(): let delta
    durations,      \* summarize_and_plot(): let durations
    durations_h,    \* handler: let durations
    h_acquired,     \* history: the handler has locked both counters
    sap_after_h,    \* history: summarize_and_plot was entered after that
    total_time      \* Summarizer::summarize(): the total_time argument

vars == << opt, stdin, pos, buffer, regex, pc, result, proc, exit_code, hpc,
           handler_set, total_lines, total_matches, lines_mx, matches_mx,
           rx_mx, rx, rx_alive, sent, sent_log, drains, out, files, clock, start_time, last_time, now,
           delta, durations, durations_h, h_acquired, sap_after_h,
           total_time >>

\* ------------------------------------------------------------------ text
Chars == {"x", "y", "nl"}

RECURSIVE SeqsUpTo(_)
SeqsUpTo(n) ==
    IF n = 0 THEN { <<>> }
    ELSE LET S == SeqsUpTo(n - 1)
         IN  S \cup { Append(s, c) : s \in { t \in S : Len(t) = n - 1 }, c \in Chars }

Inputs == SeqsUpTo(MaxBytes)

\* BufRead::read_line: the bytes up to and including the first newline, or
\* everything that is left when there is no newline.
RECURSIVE LineEnd(_, _)
LineEnd(s, i) ==
    IF i > Len(s) THEN Len(s)
    ELSE IF s[i] = "nl" THEN i
    ELSE LineEnd(s, i + 1)

\* A reader that strips the terminator, as BufRead::lines does.
NextLine_NoTerminator(s, p) ==
    LET e == LineEnd(s, p + 1)
    IN  SubSeq(s, p + 1, IF e >= 1 /\ e > p /\ s[e] = "nl" THEN e - 1 ELSE e)

NextLine(s, p) == SubSeq(s, p + 1, LineEnd(s, p + 1))

\* str::trim on this alphabet: the only whitespace is the newline.
RECURSIVE TrimEnd(_)
TrimEnd(s) ==
    IF s # <<>> /\ s[Len(s)] = "nl" THEN TrimEnd(SubSeq(s, 1, Len(s) - 1)) ELSE s

RECURSIVE TrimStart(_)
TrimStart(s) ==
    IF s # <<>> /\ s[1] = "nl" THEN TrimStart(SubSeq(s, 2, Len(s))) ELSE s

Trim(s) == TrimStart(TrimEnd(s))

\* ------------------------------------------------------------------ regex
\* The patterns a user can pass: the literal "x" and the invalid "(".
Patterns == {"x", "("}

RegexValid_AcceptsAll(p) == TRUE

RegexValid(p) == p # "("

\* re.captures_iter(&buffer).next() is Some: the literal occurs in the text.
IsMatch(re, text) == \E i \in 1..Len(text) : text[i] = re[1]

\* ------------------------------------------------------------------ mutex
Unlocked == [owner |-> "none", poisoned |-> FALSE]

Lock(mx, who) == [mx EXCEPT !.owner = who]

\* Dropping a MutexGuard: the mutex is released, and it is poisoned when the
\* owning thread is panicking.  A thread that holds no guard changes nothing.
DropGuard(mx, who, panicking) ==
    IF mx.owner = who
    THEN [owner |-> "none", poisoned |-> mx.poisoned \/ panicking]
    ELSE mx

\* ------------------------------------------------------------------ values
Snapshot(d, e) == [delta |-> d, elapsed |-> e]

DeltasOf(ds) == [i \in 1..Len(ds) |-> ds[i].delta]

TimesOf(ds) == [i \in 1..Len(ds) |-> ds[i].elapsed]

AnnotatedLine(line, e, d) ==
    [kind |-> "line", text |-> line, time |-> e, delta |-> d]

Summary(l, m, t, who) ==
    [kind |-> "summary", lines |-> l, matches |-> m, time |-> t, by |-> who]

PlotFile(name, series, who) == [name |-> name, series |-> series, by |-> who]

\* ------------------------------------------------------- wide integers
\* A nanosecond count is wider than the integers of TLC, so it is kept as
\* its digits in base 2^16, least significant first: Duration::as_nanos is a
\* u128 (eight digits) and `as u64` keeps the low four.
Base == 65536
U64Limbs == 4
U128Limbs == 8

ZeroNanos == [i \in 1..U128Limbs |-> 0]

\* total_time.as_nanos() as u64
AsU64(n) == SubSeq(n, 1, U64Limbs)

\* n / d for a small d, by long division from the top digit down.
RECURSIVE DivLimbs(_, _, _, _)
DivLimbs(n, i, r, d) ==
    IF i = 0 THEN <<>>
    ELSE LET cur == r * Base + n[i]
         IN  Append(DivLimbs(n, i - 1, cur % d, d), cur \div d)

DivSmall(n, d) == DivLimbs(n, Len(n), 0, d)

\* Duration::from_nanos(u64): the same count as a Duration.
FromNanos(q) == [i \in 1..U128Limbs |-> IF i <= Len(q) THEN q[i] ELSE 0]

\* DetailedSummarizer::summarize: let avg_time_per_line
AvgTimePerLine(lines, time) ==
    IF lines > 0
    THEN FromNanos(DivSmall(AsU64(time), lines))
    ELSE ZeroNanos

\* What the detailed summary renders: the counts, the total time and the
\* average.
DetailedSummary(lines, matches, time) ==
    [kind |-> "detailed", lines |-> lines, matches |-> matches,
     time |-> time, avg |-> AvgTimePerLine(lines, time)]

\* ------------------------------------------------------------------ init
\* Everything but the channel's receiver.
InitContext ==
    /\ opt \in [regex : { <<>> } \cup { <<p>> : p \in Patterns }, plot : BOOLEAN]
    /\ stdin \in Inputs
    /\ pos = 0
    /\ buffer = <<>>
    /\ regex = <<>>
    /\ pc = "new"
    /\ result = "none"
    /\ proc = "running"
    /\ exit_code = -1
    /\ hpc = "idle"
    /\ handler_set = FALSE
    /\ total_lines = 0
    /\ total_matches = 0
    /\ lines_mx = Unlocked
    /\ matches_mx = Unlocked
    /\ rx_mx = Unlocked
    /\ rx = <<>>
    /\ sent = 0
    /\ sent_log = <<>>
    /\ drains = 0
    /\ out = <<>>
    /\ files = <<>>
    /\ clock = 0
    /\ start_time = 0
    /\ last_time = 0
    /\ now = 0
    /\ delta = 0
    /\ durations = <<>>
    /\ durations_h = <<>>
    /\ h_acquired = FALSE
    /\ sap_after_h = FALSE
    /\ total_time = ZeroNanos

\* new() makes the channel and the context keeps both ends.
Init ==
    /\ InitContext
    /\ rx_alive = TRUE

\* The context as a caller can have left it before run(): the receiver that
\* tx sends to may have been dropped, as error.rs's test drops it.
InitRxDropped ==
    /\ InitContext
    /\ rx_alive \in BOOLEAN

\* Groups of variables that an action leaves alone.
optVars == << opt, stdin, rx_alive, total_time >>
ctrVars == << total_lines, total_matches >>
mxVars == << lines_mx, matches_mx, rx_mx >>
chanVars == << rx, sent, sent_log, drains >>
ioVars == << out, files >>
timeVars == << start_time, last_time, now, delta >>
procVars == << proc, exit_code >>
handlerVars == << hpc, durations_h, h_acquired >>

\* ------------------------------------------------------------------ time
\* The monotonic clock advances while the process runs.
Tick ==
    /\ proc = "running"
    /\ clock < MaxClock
    /\ clock' = clock + 1
    /\ UNCHANGED << optVars, pos, buffer, regex, pc, result, procVars,
                    handlerVars, handler_set, ctrVars, mxVars, chanVars,
                    ioVars, timeVars, durations, sap_after_h >>

\* ------------------------------------------------------------------ main
\* TimelnContext::new: take start_time, compile the pattern; an invalid
\* pattern makes new return Err(Regex) and main return it.
New ==
    /\ proc = "running"
    /\ pc = "new"
    /\ start_time' = clock
    /\ IF opt.regex = <<>>
       THEN regex' = <<>> /\ pc' = "run" /\ result' = result
       ELSE IF RegexValid(opt.regex[1])
            THEN regex' = opt.regex /\ pc' = "run" /\ result' = result
            ELSE regex' = regex /\ pc' = "main_ret" /\ result' = "Regex"
    /\ UNCHANGED << optVars, pos, buffer, procVars, handlerVars, handler_set,
                    ctrVars, mxVars, chanVars, ioVars, clock, last_time, now,
                    delta, durations, sap_after_h >>

\* run(), up to the loop: take last_time, make the buffer and register the
\* Ctrl-C handler; set_handler fails when a handler is already registered
\* and the expect() then panics.
RunSetup_NoHandler ==
    /\ proc = "running"
    /\ pc = "run"
    /\ last_time' = clock
    /\ buffer' = <<>>
    /\ IF handler_set
       THEN pc' = "main_ret" /\ result' = "panic" /\ handler_set' = handler_set
       ELSE pc' = "read_line" /\ result' = result /\ handler_set' = handler_set
    /\ UNCHANGED << optVars, pos, regex, procVars, handlerVars, ctrVars,
                    mxVars, chanVars, ioVars, clock, start_time, now, delta,
                    durations, sap_after_h >>

RunSetup ==
    /\ proc = "running"
    /\ pc = "run"
    /\ last_time' = clock
    /\ buffer' = <<>>
    /\ IF handler_set
       THEN pc' = "main_ret" /\ result' = "panic" /\ handler_set' = handler_set
       ELSE pc' = "read_line" /\ result' = result /\ handler_set' = TRUE
    /\ UNCHANGED << optVars, pos, regex, procVars, handlerVars, ctrVars,
                    mxVars, chanVars, ioVars, clock, start_time, now, delta,
                    durations, sap_after_h >>

\* Loop head: buffer.clear(); read_line succeeds.  Zero bytes is the end of
\* the stream: the loop breaks, run() returns Ok and main goes on to
\* summarize_and_plot.
ReadLine_IgnoresEof ==
    /\ proc = "running"
    /\ pc = "read_line"
    /\ LET line == NextLine(stdin, pos)
       IN  /\ buffer' = line
           /\ pos' = pos + Len(line)
           /\ pc' = IF Len(line) = 0 THEN "read_line" ELSE "lock_lines"
    /\ UNCHANGED << optVars, regex, result, procVars, handlerVars,
                    handler_set, ctrVars, mxVars, chanVars, ioVars, clock,
                    timeVars, durations, sap_after_h >>

ReadLine ==
    /\ proc = "running"
    /\ pc = "read_line"
    /\ LET line == NextLine(stdin, pos)
       IN  /\ buffer' = line
           /\ pos' = pos + Len(line)
           /\ pc' = IF Len(line) = 0 THEN "summarize_and_plot" ELSE "lock_lines"
    /\ UNCHANGED << optVars, regex, result, procVars, handlerVars,
                    handler_set, ctrVars, mxVars, chanVars, ioVars, clock,
                    timeVars, durations, sap_after_h >>

\* Loop head: read_line fails; the ? returns Err(Io) from run() and main
\* returns it.
ReadLineErr_Finalizes ==
    /\ proc = "running"
    /\ pc = "read_line"
    /\ buffer' = <<>>
    /\ result' = "Io"
    /\ pc' = "summarize_and_plot"
    /\ UNCHANGED << optVars, pos, regex, procVars, handlerVars, handler_set,
                    ctrVars, mxVars, chanVars, ioVars, clock, timeVars,
                    durations, sap_after_h >>

ReadLineErr ==
    /\ proc = "running"
    /\ pc = "read_line"
    /\ buffer' = <<>>
    /\ result' = "Io"
    /\ pc' = "main_ret"
    /\ UNCHANGED << optVars, pos, regex, procVars, handlerVars, handler_set,
                    ctrVars, mxVars, chanVars, ioVars, clock, timeVars,
                    durations, sap_after_h >>

\* let mut total_lines_guard = self.total_lines.lock()?; *guard += 1.
\* The call blocks while another thread owns the mutex.  A poisoned mutex
\* makes lock() return Err, which ? converts and returns from run().
LockLines_NoIncrement ==
    /\ proc = "running"
    /\ pc = "lock_lines"
    /\ lines_mx.owner = "none"
    /\ IF lines_mx.poisoned
       THEN /\ pc' = "main_ret"
            /\ result' = "MutexPoisonedError"
            /\ UNCHANGED << lines_mx, total_lines >>
       ELSE /\ lines_mx' = Lock(lines_mx, "main")
            /\ total_lines' = total_lines
            /\ pc' = "now"
            /\ result' = result
    /\ UNCHANGED << optVars, pos, buffer, regex, procVars, handlerVars,
                    handler_set, total_matches, matches_mx, rx_mx, chanVars,
                    ioVars, clock, timeVars, durations, sap_after_h >>

\* `*self.total_lines.lock()? += 1;` with a temporary guard: the count is
\* made under the lock and the lock is released in the same statement.
LockLines_ReleasesEarly ==
    /\ proc = "running"
    /\ pc = "lock_lines"
    /\ lines_mx.owner = "none"
    /\ IF lines_mx.poisoned
       THEN /\ pc' = "main_ret"
            /\ result' = "MutexPoisonedError"
            /\ UNCHANGED total_lines
       ELSE /\ total_lines' = total_lines + 1
            /\ pc' = "now"
            /\ result' = result
    /\ UNCHANGED << optVars, pos, buffer, regex, procVars, handlerVars,
                    handler_set, total_matches, mxVars, chanVars,
                    ioVars, clock, timeVars, durations, sap_after_h >>

LockLines ==
    /\ proc = "running"
    /\ pc = "lock_lines"
    /\ lines_mx.owner = "none"
    /\ IF lines_mx.poisoned
       THEN /\ pc' = "main_ret"
            /\ result' = "MutexPoisonedError"
            /\ UNCHANGED << lines_mx, total_lines >>
       ELSE /\ lines_mx' = Lock(lines_mx, "main")
            /\ total_lines' = total_lines + 1
            /\ pc' = "now"
            /\ result' = result
    /\ UNCHANGED << optVars, pos, buffer, regex, procVars, handlerVars,
                    handler_set, total_matches, matches_mx, rx_mx, chanVars,
                    ioVars, clock, timeVars, durations, sap_after_h >>

\* A line qualifies when there is no filter or the filter matches it.
Qualifies(re, text) == re = <<>> \/ IsMatch(re, text)

\* let now = Instant::now(); then the branch on the filter.  A qualifying
\* line gets delta = now - last_time and last_time = now; any other line
\* falls through to the end of the iteration.
TakeNow_NoFilterCheck ==
    /\ proc = "running"
    /\ pc = "now"
    /\ now' = clock
    /\ delta' = clock - last_time
    /\ last_time' = clock
    /\ pc' = "send"
    /\ UNCHANGED << optVars, pos, buffer, regex, result, procVars,
                    handlerVars, handler_set, ctrVars, mxVars, chanVars,
                    ioVars, clock, start_time, durations, sap_after_h >>

TakeNow_AlwaysStamps ==
    /\ proc = "running"
    /\ pc = "now"
    /\ now' = clock
    /\ last_time' = clock
    /\ IF Qualifies(regex, buffer)
       THEN delta' = clock - last_time /\ pc' = "send"
       ELSE delta' = delta /\ pc' = "end_iter"
    /\ UNCHANGED << optVars, pos, buffer, regex, result, procVars,
                    handlerVars, handler_set, ctrVars, mxVars, chanVars,
                    ioVars, clock, start_time, durations, sap_after_h >>

TakeNow ==
    /\ proc = "running"
    /\ pc = "now"
    /\ now' = clock
    /\ IF Qualifies(regex, buffer)
       THEN /\ delta' = clock - last_time
            /\ last_time' = clock
            /\ pc' = "send"
       ELSE /\ UNCHANGED << delta, last_time >>
            /\ pc' = "end_iter"
    /\ UNCHANGED << optVars, pos, buffer, regex, result, procVars,
                    handlerVars, handler_set, ctrVars, mxVars, chanVars,
                    ioVars, clock, start_time, durations, sap_after_h >>

\* TimeSnapshot { delta: delta, elapsed: now.duration_since(self.start_time) }
NewSnapshot(d, n, st) == Snapshot(d, n - st)

\* mpsc::Sender::send on a live channel: the value is queued behind the
\* values sent before it.
Enqueue_Front(q, snap) == << snap >> \o q

Enqueue(q, snap) == Append(q, snap)

\* impl From<SendError<TimeSnapshot>> for TimelnError
FromSendError == "SendError"

\* self.tx.send(TimeSnapshot { delta, elapsed: now - start_time })?.  The
\* send fails when the receiver has been dropped, and ? then returns
\* Err(SendError) from run(), dropping total_lines_guard.  With a filter
\* the match arm goes on to count the match.
Send_AlwaysCounts ==
    /\ proc = "running"
    /\ pc = "send"
    /\ IF rx_alive
       THEN /\ rx' = Enqueue(rx, NewSnapshot(delta, now, start_time))
            /\ sent' = sent + 1
            /\ sent_log' = Append(sent_log, NewSnapshot(delta, now, start_time))
            /\ pc' = "lock_matches"
            /\ UNCHANGED << result, lines_mx >>
       ELSE /\ result' = FromSendError
            /\ pc' = "main_ret"
            /\ lines_mx' = DropGuard(lines_mx, "main", FALSE)
            /\ UNCHANGED << rx, sent, sent_log >>
    /\ UNCHANGED << optVars, pos, buffer, regex, procVars, handlerVars,
                    handler_set, ctrVars, matches_mx, rx_mx, drains, ioVars,
                    clock, timeVars, durations, sap_after_h >>

Send_IgnoresError ==
    /\ proc = "running"
    /\ pc = "send"
    /\ IF rx_alive
       THEN /\ rx' = Enqueue(rx, NewSnapshot(delta, now, start_time))
            /\ sent' = sent + 1
            /\ sent_log' = Append(sent_log, NewSnapshot(delta, now, start_time))
            /\ pc' = IF regex # <<>> THEN "lock_matches" ELSE "print"
            /\ UNCHANGED << result, lines_mx >>
       ELSE /\ pc' = IF regex # <<>> THEN "lock_matches" ELSE "print"
            /\ UNCHANGED << result, lines_mx, rx, sent, sent_log >>
    /\ UNCHANGED << optVars, pos, buffer, regex, procVars, handlerVars,
                    handler_set, ctrVars, matches_mx, rx_mx, drains, ioVars,
                    clock, timeVars, durations, sap_after_h >>

Send ==
    /\ proc = "running"
    /\ pc = "send"
    /\ IF rx_alive
       THEN /\ rx' = Enqueue(rx, NewSnapshot(delta, now, start_time))
            /\ sent' = sent + 1
            /\ sent_log' = Append(sent_log, NewSnapshot(delta, now, start_time))
            /\ pc' = IF regex # <<>> THEN "lock_matches" ELSE "print"
            /\ UNCHANGED << result, lines_mx >>
       ELSE /\ result' = FromSendError
            /\ pc' = "main_ret"
            /\ lines_mx' = DropGuard(lines_mx, "main", FALSE)
            /\ UNCHANGED << rx, sent, sent_log >>
    /\ UNCHANGED << optVars, pos, buffer, regex, procVars, handlerVars,
                    handler_set, ctrVars, matches_mx, rx_mx, drains, ioVars,
                    clock, timeVars, durations, sap_after_h >>

\* let mut total_matches_guard = self.total_matches.lock().unwrap();
\* *guard += 1.  On a poisoned mutex the unwrap panics: the main thread
\* unwinds, its total_lines guard is dropped while panicking.
LockMatches ==
    /\ proc = "running"
    /\ pc = "lock_matches"
    /\ matches_mx.owner = "none"
    /\ IF matches_mx.poisoned
       THEN /\ pc' = "main_ret"
            /\ result' = "panic"
            /\ lines_mx' = DropGuard(lines_mx, "main", TRUE)
            /\ UNCHANGED << matches_mx, total_matches >>
       ELSE /\ matches_mx' = Lock(matches_mx, "main")
            /\ total_matches' = total_matches + 1
            /\ pc' = "print"
            /\ result' = result
            /\ UNCHANGED lines_mx
    /\ UNCHANGED << optVars, pos, buffer, regex, procVars, handlerVars,
                    handler_set, total_lines, rx_mx, chanVars, ioVars, clock,
                    timeVars, durations, sap_after_h >>

\* println!("{}", output) with output = format_line(trimmed line, elapsed,
\* delta); the match arm ends here, which drops total_matches_guard.
WriteLine ==
    /\ proc = "running"
    /\ pc = "print"
    /\ out' = Append(out, AnnotatedLine(Trim(buffer), now - start_time, delta))
    /\ matches_mx' = DropGuard(matches_mx, "main", FALSE)
    /\ pc' = "end_iter"
    /\ UNCHANGED << optVars, pos, buffer, regex, result, procVars,
                    handlerVars, handler_set, ctrVars, lines_mx, rx_mx,
                    chanVars, files, clock, timeVars, durations, sap_after_h >>

\* End of the loop body: total_lines_guard goes out of scope.
EndIter_KeepsGuard ==
    /\ proc = "running"
    /\ pc = "end_iter"
    /\ pc' = "read_line"
    /\ UNCHANGED << optVars, pos, buffer, regex, result, procVars,
                    handlerVars, handler_set, ctrVars, mxVars, chanVars,
                    ioVars, clock, timeVars, durations, sap_after_h >>

EndIter ==
    /\ proc = "running"
    /\ pc = "end_iter"
    /\ lines_mx' = DropGuard(lines_mx, "main", FALSE)
    /\ pc' = "read_line"
    /\ UNCHANGED << optVars, pos, buffer, regex, result, procVars,
                    handlerVars, handler_set, ctrVars, matches_mx, rx_mx,
                    chanVars, ioVars, clock, timeVars, durations, sap_after_h >>

\* ------------------------------------------------- summarize_and_plot
\* Every guard that summarize_and_plot holds is dropped when it returns.
SapDropAll ==
    /\ lines_mx' = DropGuard(lines_mx, "main", FALSE)
    /\ matches_mx' = DropGuard(matches_mx, "main", FALSE)
    /\ rx_mx' = DropGuard(rx_mx, "main", FALSE)

\* main calls summarize_and_plot after run() returned Ok: let now.
SapNow ==
    /\ proc = "running"
    /\ pc = "summarize_and_plot"
    /\ now' = clock
    /\ sap_after_h' = h_acquired
    /\ pc' = "sap_lock_lines"
    /\ UNCHANGED << optVars, pos, buffer, regex, result, procVars,
                    handlerVars, handler_set, ctrVars, mxVars, chanVars,
                    ioVars, clock, start_time, last_time, delta, durations >>

\* let total_lines_final = self.total_lines.lock()?
SapLockLines ==
    /\ proc = "running"
    /\ pc = "sap_lock_lines"
    /\ lines_mx.owner = "none"
    /\ IF lines_mx.poisoned
       THEN /\ pc' = "main_ret"
            /\ result' = "MutexPoisonedError"
            /\ UNCHANGED lines_mx
       ELSE /\ lines_mx' = Lock(lines_mx, "main")
            /\ pc' = "sap_lock_matches"
            /\ result' = result
    /\ UNCHANGED << optVars, pos, buffer, regex, procVars, handlerVars,
                    handler_set, ctrVars, matches_mx, rx_mx, chanVars, ioVars,
                    clock, timeVars, durations, sap_after_h >>

\* let total_matches_final = self.total_matches.lock()?
SapLockMatches ==
    /\ proc = "running"
    /\ pc = "sap_lock_matches"
    /\ matches_mx.owner = "none"
    /\ IF matches_mx.poisoned
       THEN /\ pc' = "main_ret"
            /\ result' = "MutexPoisonedError"
            /\ SapDropAll
       ELSE /\ matches_mx' = Lock(matches_mx, "main")
            /\ pc' = "sap_summary"
            /\ result' = result
            /\ UNCHANGED << lines_mx, rx_mx >>
    /\ UNCHANGED << optVars, pos, buffer, regex, procVars, handlerVars,
                    handler_set, ctrVars, chanVars, ioVars, clock, timeVars,
                    durations, sap_after_h >>

\* println!(summary); without the plot option the function returns Ok.
SapSummary ==
    /\ proc = "running"
    /\ pc = "sap_summary"
    /\ out' = Append(out, Summary(total_lines, total_matches,
                                  now - start_time, "main"))
    /\ IF opt.plot
       THEN /\ pc' = "sap_lock_rx"
            /\ result' = result
            /\ UNCHANGED mxVars
       ELSE /\ pc' = "main_ret"
            /\ result' = "Ok"
            /\ SapDropAll
    /\ UNCHANGED << optVars, pos, buffer, regex, procVars, handlerVars,
                    handler_set, ctrVars, chanVars, files, clock, timeVars,
                    durations, sap_after_h >>

\* if self.plot { let rx_lock = self.rx.lock()?
SapLockRx ==
    /\ proc = "running"
    /\ pc = "sap_lock_rx"
    /\ rx_mx.owner = "none"
    /\ IF rx_mx.poisoned
       THEN /\ pc' = "main_ret"
            /\ result' = "MutexPoisonedError"
            /\ SapDropAll
       ELSE /\ rx_mx' = Lock(rx_mx, "main")
            /\ pc' = "sap_drain"
            /\ result' = result
            /\ UNCHANGED << lines_mx, matches_mx >>
    /\ UNCHANGED << optVars, pos, buffer, regex, procVars, handlerVars,
                    handler_set, ctrVars, chanVars, ioVars, clock, timeVars,
                    durations, sap_after_h >>

\* let durations: Vec<_> = rx_lock.try_iter().collect()
SapDrain ==
    /\ proc = "running"
    /\ pc = "sap_drain"
    /\ durations' = rx
    /\ rx' = <<>>
    /\ drains' = drains + 1
    /\ pc' = "sap_plot_deltas"
    /\ UNCHANGED << optVars, pos, buffer, regex, result, procVars,
                    handlerVars, handler_set, ctrVars, mxVars, sent, sent_log,
                    ioVars, clock, timeVars, sap_after_h >>

\* plot_deltas(&deltas, "deltas.svg")?: the file is written, or the plot
\* library fails and ? returns Err(BoxError).
SapPlotDeltas ==
    /\ proc = "running"
    /\ pc = "sap_plot_deltas"
    /\ \E ok \in BOOLEAN :
          IF ok
          THEN /\ files' = Append(files, PlotFile("deltas.svg",
                                                  DeltasOf(durations), "main"))
               /\ pc' = "sap_plot_times"
               /\ result' = result
               /\ UNCHANGED mxVars
          ELSE /\ files' = files
               /\ pc' = "main_ret"
               /\ result' = "BoxError"
               /\ SapDropAll
    /\ UNCHANGED << optVars, pos, buffer, regex, procVars, handlerVars,
                    handler_set, ctrVars, chanVars, out, clock, timeVars,
                    durations, sap_after_h >>

\* plot_times(&times, "times.svg")?; Ok(())
SapPlotTimes ==
    /\ proc = "running"
    /\ pc = "sap_plot_times"
    /\ \E ok \in BOOLEAN :
          /\ files' = IF ok
                      THEN Append(files, PlotFile("times.svg",
                                                  TimesOf(durations), "main"))
                      ELSE files
          /\ result' = IF ok THEN "Ok" ELSE "BoxError"
    /\ pc' = "main_ret"
    /\ SapDropAll
    /\ UNCHANGED << optVars, pos, buffer, regex, procVars, handlerVars,
                    handler_set, ctrVars, chanVars, out, clock, timeVars,
                    durations, sap_after_h >>

\* main returns what new / run / summarize_and_plot returned: the process
\* exits with 0 on Ok, with a failure status on Err, with 101 on a panic.
MainExit ==
    /\ proc = "running"
    /\ pc = "main_ret"
    /\ proc' = "exited"
    /\ exit_code' = IF result = "Ok" THEN 0
                    ELSE IF result = "panic" THEN 101 ELSE 1
    /\ pc' = "done"
    /\ UNCHANGED << optVars, pos, buffer, regex, result, handlerVars,
                    handler_set, ctrVars, mxVars, chanVars, ioVars, clock,
                    timeVars, durations, sap_after_h >>

\* ------------------------------------------------------- Ctrl-C handler
\* The handler thread panics: every guard the closure holds is dropped
\* while panicking, and the thread ends without ending the process.
HPanicDropAll ==
    /\ lines_mx' = DropGuard(lines_mx, "handler", TRUE)
    /\ matches_mx' = DropGuard(matches_mx, "handler", TRUE)
    /\ rx_mx' = DropGuard(rx_mx, "handler", TRUE)

\* An interrupt arrives and the registered closure is invoked.
Interrupt ==
    /\ proc = "running"
    /\ handler_set
    /\ hpc = "idle"
    /\ hpc' = "h_lock_lines"
    /\ UNCHANGED << optVars, pos, buffer, regex, pc, result, procVars,
                    durations_h, h_acquired, handler_set, ctrVars, mxVars,
                    chanVars, ioVars, clock, timeVars, durations,
                    sap_after_h >>

\* The handler taking the two counter locks in the opposite order:
\* total_matches first, then total_lines.
HLockLines_MatchesFirst ==
    /\ proc = "running"
    /\ \/ /\ hpc = "h_lock_lines"
          /\ matches_mx.owner = "none"
          /\ matches_mx' = Lock(matches_mx, "handler")
          /\ hpc' = "h_lock_lines_second"
          /\ UNCHANGED << lines_mx, h_acquired >>
       \/ /\ hpc = "h_lock_lines_second"
          /\ lines_mx.owner = "none"
          /\ lines_mx' = Lock(lines_mx, "handler")
          /\ hpc' = "h_summary"
          /\ h_acquired' = TRUE
          /\ UNCHANGED matches_mx
    /\ UNCHANGED << optVars, pos, buffer, regex, pc, result, procVars,
                    durations_h, handler_set, ctrVars, rx_mx, chanVars,
                    ioVars, clock, timeVars, durations, sap_after_h >>

\* let total_lines = total_lines_ctrlc.lock().unwrap()
HLockLines ==
    /\ proc = "running"
    /\ hpc = "h_lock_lines"
    /\ lines_mx.owner = "none"
    /\ IF lines_mx.poisoned
       THEN hpc' = "panicked" /\ UNCHANGED lines_mx
       ELSE hpc' = "h_lock_matches" /\ lines_mx' = Lock(lines_mx, "handler")
    /\ UNCHANGED << optVars, pos, buffer, regex, pc, result, procVars,
                    durations_h, h_acquired, handler_set, ctrVars, matches_mx,
                    rx_mx, chanVars, ioVars, clock, timeVars, durations,
                    sap_after_h >>

\* HLockMatches without the lock: the handler goes on to read the counter
\* with no guard.
HLockMatches_SkipsLock ==
    /\ proc = "running"
    /\ hpc = "h_lock_matches"
    /\ hpc' = "h_summary"
    /\ h_acquired' = TRUE
    /\ UNCHANGED << optVars, pos, buffer, regex, pc, result, procVars,
                    durations_h, handler_set, ctrVars, mxVars, chanVars,
                    ioVars, clock, timeVars, durations, sap_after_h >>

\* let total_matches = total_matches_ctrlc.lock().unwrap()
HLockMatches ==
    /\ proc = "running"
    /\ hpc = "h_lock_matches"
    /\ matches_mx.owner = "none"
    /\ IF matches_mx.poisoned
       THEN /\ hpc' = "panicked"
            /\ HPanicDropAll
            /\ UNCHANGED h_acquired
       ELSE /\ hpc' = "h_summary"
            /\ matches_mx' = Lock(matches_mx, "handler")
            /\ h_acquired' = TRUE
            /\ UNCHANGED << lines_mx, rx_mx >>
    /\ UNCHANGED << optVars, pos, buffer, regex, pc, result, procVars,
                    durations_h, handler_set, ctrVars, chanVars, ioVars,
                    clock, timeVars, durations, sap_after_h >>

\* println!(summary of *total_lines, *total_matches, now - start_time)
HSummary ==
    /\ proc = "running"
    /\ hpc = "h_summary"
    /\ out' = Append(out, Summary(total_lines, total_matches,
                                  clock - start_time, "handler"))
    /\ hpc' = "h_lock_rx"
    /\ UNCHANGED << optVars, pos, buffer, regex, pc, result, procVars,
                    durations_h, h_acquired, handler_set, ctrVars, mxVars,
                    chanVars, files, clock, timeVars, durations,
                    sap_after_h >>

\* let rx_lock = rx_ctrlc.lock().unwrap()
HLockRx ==
    /\ proc = "running"
    /\ hpc = "h_lock_rx"
    /\ rx_mx.owner = "none"
    /\ IF rx_mx.poisoned
       THEN hpc' = "panicked" /\ HPanicDropAll
       ELSE /\ hpc' = "h_drain"
            /\ rx_mx' = Lock(rx_mx, "handler")
            /\ UNCHANGED << lines_mx, matches_mx >>
    /\ UNCHANGED << optVars, pos, buffer, regex, pc, result, procVars,
                    durations_h, h_acquired, handler_set, ctrVars, chanVars,
                    ioVars, clock, timeVars, durations, sap_after_h >>

\* let durations: Vec<_> = rx_lock.try_iter().collect()
HDrain ==
    /\ proc = "running"
    /\ hpc = "h_drain"
    /\ durations_h' = rx
    /\ rx' = <<>>
    /\ drains' = drains + 1
    /\ hpc' = "h_plot_deltas"
    /\ UNCHANGED << optVars, pos, buffer, regex, pc, result, procVars,
                    h_acquired, handler_set, ctrVars, mxVars, sent, sent_log,
                    ioVars, clock, timeVars, durations, sap_after_h >>

\* plot_deltas(&deltas, "deltas.svg").unwrap(): the file is written, or the
\* plot library fails and the unwrap panics.  The plot option is not
\* consulted.
HPlotDeltas ==
    /\ proc = "running"
    /\ hpc = "h_plot_deltas"
    /\ \E ok \in BOOLEAN :
          IF ok
          THEN /\ files' = Append(files, PlotFile("deltas.svg",
                                                  DeltasOf(durations_h),
                                                  "handler"))
               /\ hpc' = "h_plot_times"
               /\ UNCHANGED mxVars
          ELSE /\ files' = files
               /\ hpc' = "panicked"
               /\ HPanicDropAll
    /\ UNCHANGED << optVars, pos, buffer, regex, pc, result, procVars,
                    durations_h, h_acquired, handler_set, ctrVars, chanVars,
                    out, clock, timeVars, durations, sap_after_h >>

\* plot_times(&times, "times.svg").unwrap()
HPlotTimes ==
    /\ proc = "running"
    /\ hpc = "h_plot_times"
    /\ \E ok \in BOOLEAN :
          IF ok
          THEN /\ files' = Append(files, PlotFile("times.svg",
                                                  TimesOf(durations_h),
                                                  "handler"))
               /\ hpc' = "h_exit"
               /\ UNCHANGED mxVars
          ELSE /\ files' = files
               /\ hpc' = "panicked"
               /\ HPanicDropAll
    /\ UNCHANGED << optVars, pos, buffer, regex, pc, result, procVars,
                    durations_h, h_acquired, handler_set, ctrVars, chanVars,
                    out, clock, timeVars, durations, sap_after_h >>

\* std::process::exit(0)
HExit ==
    /\ proc = "running"
    /\ hpc = "h_exit"
    /\ proc' = "exited"
    /\ exit_code' = 0
    /\ hpc' = "exited"
    /\ UNCHANGED << optVars, pos, buffer, regex, pc, result, durations_h,
                    h_acquired, handler_set, ctrVars, mxVars, chanVars,
                    ioVars, clock, timeVars, durations, sap_after_h >>

\* ------------------------------------------------------------------ spec
\* Any one step of the handler closure.
\* The steps of the main thread.
MainStep ==
    \/ New \/ RunSetup \/ ReadLine \/ ReadLineErr
    \/ LockLines \/ TakeNow \/ Send \/ LockMatches \/ WriteLine \/ EndIter
    \/ SapNow \/ SapLockLines \/ SapLockMatches \/ SapSummary \/ SapLockRx
    \/ SapDrain \/ SapPlotDeltas \/ SapPlotTimes
    \/ MainExit

HandlerStep ==
    \/ HLockLines \/ HLockMatches \/ HSummary \/ HLockRx \/ HDrain
    \/ HPlotDeltas \/ HPlotTimes \/ HExit

Next ==
    \/ Tick
    \/ New \/ RunSetup \/ ReadLine \/ ReadLineErr
    \/ LockLines \/ TakeNow \/ Send \/ LockMatches \/ WriteLine \/ EndIter
    \/ SapNow \/ SapLockLines \/ SapLockMatches \/ SapSummary \/ SapLockRx
    \/ SapDrain \/ SapPlotDeltas \/ SapPlotTimes
    \/ MainExit
    \/ Interrupt
    \/ HLockLines \/ HLockMatches \/ HSummary \/ HLockRx \/ HDrain
    \/ HPlotDeltas \/ HPlotTimes \/ HExit

Spec == Init /\ [][Next]_vars

\* The same program started from a context whose receiver may be gone.
SpecRxDropped == InitRxDropped /\ [][Next]_vars

\* A caller of the public API calls run() again after it returned Ok.
RunAgain ==
    /\ proc = "running"
    /\ pc = "summarize_and_plot"
    /\ pc' = "run"
    /\ UNCHANGED << optVars, pos, buffer, regex, result, procVars,
                    handlerVars, handler_set, ctrVars, mxVars, chanVars,
                    ioVars, clock, timeVars, durations, sap_after_h >>

NextRerun == Next \/ RunAgain

SpecRerun == Init /\ [][NextRerun]_vars

\* The main thread alone, up to the return of run(): no read fails and no
\* interrupt arrives.  The thread is scheduled and every read_line on the
\* finite input returns, so the steps of run() are weakly fair.
RunNext ==
    \/ RunSetup \/ ReadLine
    \/ LockLines \/ TakeNow \/ Send \/ LockMatches \/ WriteLine \/ EndIter

NextNoInterrupt == Tick \/ New \/ RunNext

SpecNoInterrupt == Init /\ [][NextNoInterrupt]_vars /\ WF_vars(RunNext)

\* ------------------------------------------------ the detailed summarizer
\* DetailedSummarizer::summarize is a pure function that no TimelnContext
\* calls (new() installs the simple one), so it is exercised on its own: the
\* arguments are drawn at the start and one step applies the function.
\* The durations drawn have a low digit, the top digit of the u64 range and
\* the digit above that range.
Nanos(lo, top, hi) ==
    [i \in 1..U128Limbs |->
        IF i = 1 THEN lo
        ELSE IF i = U64Limbs THEN top
        ELSE IF i = U64Limbs + 1 THEN hi
        ELSE 0]

TimeInputs ==
    { Nanos(lo, top, hi) : lo \in 0..MaxLow, top \in {0, Base - 1},
                           hi \in 0..MaxHigh }

InitSummarize ==
    /\ total_lines \in 0..MaxCount
    /\ total_matches \in 0..MaxCount
    /\ total_time \in TimeInputs
    /\ pc = "summarize"
    /\ out = <<>>
    /\ opt = [regex |-> <<>>, plot |-> FALSE]
    /\ stdin = <<>>
    /\ pos = 0
    /\ buffer = <<>>
    /\ regex = <<>>
    /\ result = "none"
    /\ proc = "running"
    /\ exit_code = -1
    /\ hpc = "idle"
    /\ handler_set = FALSE
    /\ lines_mx = Unlocked
    /\ matches_mx = Unlocked
    /\ rx_mx = Unlocked
    /\ rx = <<>>
    /\ rx_alive = TRUE
    /\ sent = 0
    /\ sent_log = <<>>
    /\ drains = 0
    /\ files = <<>>
    /\ clock = 0
    /\ start_time = 0
    /\ last_time = 0
    /\ now = 0
    /\ delta = 0
    /\ durations = <<>>
    /\ durations_h = <<>>
    /\ h_acquired = FALSE
    /\ sap_after_h = FALSE

\* summarize(total_lines, total_matches, &total_time, ..)
Summarize ==
    /\ pc = "summarize"
    /\ out' = Append(out, DetailedSummary(total_lines, total_matches,
                                          total_time))
    /\ pc' = "summarized"
    /\ UNCHANGED << optVars, pos, buffer, regex, result, procVars,
                    handlerVars, handler_set, ctrVars, mxVars, chanVars,
                    files, clock, timeVars, durations, sap_after_h >>

SpecSummarize == InitSummarize /\ [][Summarize]_vars

\* ================================================================ claims
NumSummaries(o) == Cardinality({ i \in 1..Len(o) : o[i].kind = "summary" })

SummariesBy(o, who) ==
    { i \in 1..Len(o) : o[i].kind = "summary" /\ o[i].by = who }

FilesBy(f, who) == { i \in 1..Len(f) : f[i].by = who }

\* C1: over the lifetime of the process the summarize/plot body runs exactly
\* once: never twice, and a process that ends with status 0 has run it.
C1_FinalizeExactlyOnce ==
    /\ NumSummaries(out) <= 1
    /\ (proc = "exited" /\ exit_code = 0) => NumSummaries(out) = 1

\* C2: when summarize_and_plot is entered after the handler has acquired the
\* counters, the normal path prints no summary, writes no plot file and does
\* not end in an error.
C2_NormalPathNoOp ==
    sap_after_h =>
        /\ SummariesBy(out, "main") = {}
        /\ FilesBy(files, "main") = {}
        /\ result \in {"none", "Ok"}

\* C3: the handler never ends without terminating the process; when it has
\* ended, the process has exited with status 0 and the handler's summary is
\* on standard output.
C3_HandlerAlwaysExitsZero ==
    /\ hpc # "panicked"
    /\ hpc = "exited" =>
          /\ proc = "exited"
          /\ exit_code = 0
          /\ SummariesBy(out, "handler") # {}

\* C4: while the loop is inside read_line the main thread owns none of the
\* three mutexes, so a handler that has been invoked can always take its
\* next step.
HandlerRunning ==
    hpc \in {"h_lock_lines", "h_lock_matches", "h_summary", "h_lock_rx",
             "h_drain", "h_plot_deltas", "h_plot_times", "h_exit"}

C5_PoisonRecovered ==
    result \notin {"MutexPoisonedError", "panic"}

\* C6: without the plot option no plot file is written by any path.
C6_PlotOnlyWhenSet ==
    ~opt.plot => files = <<>>

\* C7: total_matches <= total_lines in every state, and every step changes
\* each counter by 0 or +1.
C7_CountersMonotone ==
    /\ [](total_matches <= total_lines)
    /\ [][/\ total_lines' - total_lines \in {0, 1}
          /\ total_matches' - total_matches \in {0, 1}]_vars

C7_Witness ==
    /\ total_matches >= 1
    /\ total_lines > total_matches

\* The number of lines of a text: one per newline, and one more for a last
\* line that has no newline.
NumLines(s) ==
    Cardinality({ i \in 1..Len(s) : s[i] = "nl" })
        + (IF s # <<>> /\ s[Len(s)] # "nl" THEN 1 ELSE 0)

\* The lines of a text that contain an "x": positions of an "x" that has no
\* earlier "x" on the same line.
NumLinesWithX(s) ==
    Cardinality({ i \in 1..Len(s) :
        /\ s[i] = "x"
        /\ \A j \in 1..(i - 1) :
              s[j] = "x" => \E k \in j..(i - 1) : s[k] = "nl" })

\* run() has just returned Ok at the end of the stream.
RunReturnedOk == pc = "summarize_and_plot"

\* C8: with no filter, when run() returns at the end of the stream
\* total_lines is the number of input lines, total_matches is 0 and one
\* snapshot per line has been sent.
C8_NoFilterCounts ==
    (regex = <<>> /\ RunReturnedOk) =>
        /\ total_lines = NumLines(stdin)
        /\ total_matches = 0
        /\ sent = NumLines(stdin)

C8_Witness ==
    /\ regex = <<>>
    /\ RunReturnedOk
    /\ total_lines = 2
    /\ sent = 2

\* C9: with a filter, when run() returns at the end of the stream
\* total_lines is the number of input lines, total_matches the number of
\* lines that match, and one snapshot per match has been sent.
C9_FilterCounts ==
    (regex # <<>> /\ RunReturnedOk) =>
        /\ total_lines = NumLines(stdin)
        /\ total_matches = NumLinesWithX(stdin)
        /\ sent = total_matches

C9_Witness ==
    /\ regex # <<>>
    /\ RunReturnedOk
    /\ total_lines = 2
    /\ total_matches = 1
    /\ sent = 1

\* C10: with a filter, the steps of the loop that process a non-matching
\* line write no output, send no snapshot and leave total_matches and
\* last_time alone; total_lines goes up by one when it is counted and is
\* otherwise unchanged.
C10_NonMatchingFrame ==
    [][(/\ pc' # pc
        /\ pc \in {"lock_lines", "now", "end_iter"}
        /\ regex # <<>>
        /\ ~IsMatch(regex, buffer))
       => /\ out' = out
          /\ files' = files
          /\ rx' = rx
          /\ sent' = sent
          /\ total_matches' = total_matches
          /\ last_time' = last_time
          /\ total_lines' = IF pc = "lock_lines" /\ pc' = "now"
                            THEN total_lines + 1
                            ELSE total_lines]_vars

\* A non-matching line has been processed at a time later than last_time.
C10_Witness ==
    /\ regex # <<>>
    /\ pc = "end_iter"
    /\ ~IsMatch(regex, buffer)
    /\ total_lines = 1
    /\ now > last_time
    /\ out = <<>>
    /\ sent = 0

\* C11: standard output is annotated lines followed by exactly one summary
\* line: no annotated line comes after a summary, there is never a second
\* summary, there is one annotated line per snapshot sent, and a process
\* that has ended with status 0 has written its summary last.
C11_OutputShape ==
    /\ \A i, j \in 1..Len(out) :
          (i < j /\ out[i].kind = "summary") => out[j].kind = "summary"
    /\ NumSummaries(out) <= 1
    /\ Len(out) - NumSummaries(out) \in {sent, sent - 1}
    /\ (proc = "exited" /\ exit_code = 0) =>
          /\ NumSummaries(out) = 1
          /\ out[Len(out)].kind = "summary"

\* C12: the channel is first-in first-out and loses nothing: what the
\* drains have received, followed by what is still queued, is the sequence
\* of snapshots in the order of the sends, values unchanged.
C12_ChannelFifo ==
    durations \o durations_h \o rx = sent_log

\* A drain has received two different snapshots.
C12_Witness ==
    /\ Len(durations_h) = 2
    /\ durations_h[1] # durations_h[2]
    /\ durations_h = sent_log

\* C13: the channel is never drained twice, and a finalize that has run to
\* its end (summarize_and_plot returned Ok, or the handler has exited) has
\* drained it once, whatever the plot option.
C13_DrainedExactlyOnce ==
    /\ drains <= 1
    /\ (pc \in {"main_ret", "done"} /\ result = "Ok") => drains = 1
    /\ hpc = "exited" => drains = 1

\* C14: a failed read_line ends run() at once with the Io error: the step
\* changes no counter, sends no snapshot and writes nothing, main returns
\* the error, and the normal path never writes a summary after it.
C14_ReadErrorAborts ==
    /\ [](result = "Io" =>
            /\ pc \in {"main_ret", "done"}
            /\ SummariesBy(out, "main") = {}
            /\ FilesBy(files, "main") = {})
    /\ [][(pc = "read_line" /\ result' = "Io") =>
            /\ pc' = "main_ret"
            /\ total_lines' = total_lines
            /\ total_matches' = total_matches
            /\ rx' = rx
            /\ sent' = sent
            /\ out' = out
            /\ files' = files]_vars

\* The second read failed: one line was processed, no summary was written
\* and the process ended with a failure status.
C14_Witness ==
    /\ result = "Io"
    /\ proc = "exited"
    /\ exit_code = 1
    /\ total_lines = 1
    /\ sent = 1
    /\ NumSummaries(out) = 0

\* C15: once new has returned, it has failed with the Regex error exactly
\* when the pattern is the invalid one; then main has returned, no handler
\* is registered and no input has been read.  Otherwise the context holds
\* the pattern that was given, or none.
C15_NewResult ==
    pc # "new" =>
        IF opt.regex = << "(" >>
        THEN /\ result = "Regex"
             /\ pc \in {"main_ret", "done"}
             /\ ~handler_set
             /\ hpc = "idle"
             /\ pos = 0
             /\ total_lines = 0
             /\ out = <<>>
        ELSE /\ result # "Regex"
             /\ regex = opt.regex

C15_Witness ==
    /\ result = "Regex"
    /\ proc = "exited"
    /\ exit_code = 1
    /\ stdin # <<>>
    /\ pos = 0

LinesIn(o) == { i \in 1..Len(o) : o[i].kind = "line" }

\* C16: a send on a channel whose receiver is gone ends run() with the
\* SendError variant: the step writes no annotated line, counts no match
\* and queues nothing, main returns the error, and the normal path writes
\* no summary after it.
C16_SendErrorFatal ==
    /\ [](result = "SendError" =>
            /\ pc \in {"main_ret", "done"}
            /\ SummariesBy(out, "main") = {}
            /\ Cardinality(LinesIn(out)) = sent)
    /\ [][(pc = "send" /\ pc' # pc /\ ~rx_alive) =>
            /\ result' = "SendError"
            /\ pc' = "main_ret"
            /\ out' = out
            /\ rx' = rx
            /\ sent' = sent
            /\ total_matches' = total_matches]_vars

\* The first matching line could not be sent: it was counted as a line,
\* nothing was written and the process ended with a failure status.
C16_Witness ==
    /\ ~rx_alive
    /\ result = "SendError"
    /\ proc = "exited"
    /\ exit_code = 1
    /\ regex # <<>>
    /\ total_lines = 2
    /\ total_matches = 0
    /\ LinesIn(out) = {}
    /\ SummariesBy(out, "main") = {}

LoopPcs ==
    {"read_line", "lock_lines", "now", "send", "lock_matches", "print",
     "end_iter"}

\* C17: the loop never runs, and no input is ever read, without a handler
\* registered; a registered handler stays registered; the first run()
\* registers it before the loop, and a later run() registers nothing and
\* reads nothing (set_handler fails and expect panics).
C17_HandlerOnceBeforeLoop ==
    /\ []((pc \in LoopPcs \/ pos > 0) => handler_set)
    /\ [][handler_set => handler_set']_vars
    /\ [][(pc = "run" /\ pc' # pc) =>
            IF handler_set
            THEN pc' = "main_ret" /\ result' = "panic" /\ pos' = pos
            ELSE pc' = "read_line" /\ handler_set' /\ pos' = pos]_vars

\* A second run() after a first one that read input has panicked.
C17_Witness ==
    /\ result = "panic"
    /\ handler_set
    /\ pos > 0
    /\ total_lines = 2
    /\ proc = "exited"
    /\ exit_code = 101

\* C18: the first snapshot sent has delta = elapsed.
C18_FirstDeltaIsElapsed ==
    sent_log # <<>> => sent_log[1].delta = sent_log[1].elapsed

RECURSIVE SumDeltas(_)
SumDeltas(ds) ==
    IF ds = <<>> THEN 0 ELSE ds[1].delta + SumDeltas(Tail(ds))

\* C19: the deltas of the snapshots produced add up to the elapsed time of
\* the last snapshot.
C19_SumDeltasIsElapsed ==
    sent_log # <<>> => SumDeltas(sent_log) = sent_log[Len(sent_log)].elapsed

\* C20: each snapshot's elapsed time is the previous snapshot's plus its own
\* delta, so elapsed times never decrease along the channel.
C20_ElapsedChainsDeltas ==
    \A i \in 2..Len(sent_log) :
        /\ sent_log[i].elapsed = sent_log[i - 1].elapsed + sent_log[i].delta
        /\ sent_log[i].elapsed >= sent_log[i - 1].elapsed

\* With a filter: two matching lines with a non-matching line between them,
\* and time passed since the first match.
C20_Witness ==
    /\ regex # <<>>
    /\ Len(sent_log) = 2
    /\ total_lines = 3
    /\ sent_log[2].delta > 0

\* C21: without a read error and without an interrupt, a run() that has
\* been entered returns Ok with the whole input consumed.
C21_RunTerminates ==
    (pc = "run") ~>
        (pc = "summarize_and_plot" /\ pos = Len(stdin) /\ result = "none")

\* run() has returned after three lines.
C21_Witness ==
    /\ RunReturnedOk
    /\ pos = Len(stdin)
    /\ total_lines = 3
    /\ result = "none"

SapPcs ==
    {"summarize_and_plot", "sap_lock_lines", "sap_lock_matches",
     "sap_summary", "sap_lock_rx", "sap_drain", "sap_plot_deltas",
     "sap_plot_times"}

\* The party whose summary a step has just written, "none" if it wrote none.
SummaryWriter ==
    IF Len(out') = Len(out) + 1 /\ out'[Len(out')].kind = "summary"
    THEN out'[Len(out')].by
    ELSE "none"

\* C22: a counter changes only in a step of the processing loop, by one and
\* under the main thread's guard of that counter; no step of the handler and
\* no step of summarize_and_plot changes a counter; and whoever writes a
\* summary (the read of both counters) holds both mutexes while it does.
C22_CountersUnderLock ==
    [][ /\ total_lines' # total_lines =>
              /\ pc \in LoopPcs
              /\ total_lines' = total_lines + 1
              /\ lines_mx'.owner = "main"
        /\ total_matches' # total_matches =>
              /\ pc \in LoopPcs
              /\ total_matches' = total_matches + 1
              /\ matches_mx'.owner = "main"
        /\ hpc' # hpc => UNCHANGED ctrVars
        /\ pc \in SapPcs => UNCHANGED ctrVars
        /\ SummaryWriter # "none" =>
              /\ lines_mx.owner = SummaryWriter
              /\ matches_mx.owner = SummaryWriter
              /\ out'[Len(out')].lines = total_lines
              /\ out'[Len(out')].matches = total_matches ]_vars

\* The handler reads the counters, under both guards, after the loop has
\* counted a line and a match.
C22_Witness ==
    /\ hpc = "h_lock_rx"
    /\ SummariesBy(out, "handler") # {}
    /\ lines_mx.owner = "handler"
    /\ matches_mx.owner = "handler"
    /\ total_lines = 2
    /\ total_matches = 1

\* C23: a successful read_line at the loop head leaves in the buffer the
\* bytes of the next line, terminator included, and advances the reader by
\* that many bytes; the count is 0 exactly at the end of the stream, and only
\* then does the loop end.  So when run() returns Ok every line has been
\* counted, a blank line and an unterminated last line included.
C23_ReadLineCountsBytes ==
    /\ [][ (pc = "read_line" /\ pc' # "read_line" /\ result' = result) =>
             LET n == pos' - pos
             IN  /\ n = Len(buffer')
                 /\ buffer' = [i \in 1..n |-> stdin[pos + i]]
                 /\ (n = 0) <=> (pos = Len(stdin))
                 /\ \A i \in 1..(n - 1) : buffer'[i] # "nl"
                 /\ n > 0 => (buffer'[n] = "nl" \/ pos' = Len(stdin))
                 /\ pc' = IF n = 0 THEN "summarize_and_plot"
                                   ELSE "lock_lines" ]_vars
    /\ [](RunReturnedOk => (pos = Len(stdin) /\ total_lines = NumLines(stdin)))

\* run() has returned Ok on an input that begins with a blank line and ends
\* with an unterminated line; both were counted.
C23_Witness ==
    /\ RunReturnedOk
    /\ Len(stdin) >= 2
    /\ stdin[1] = "nl"
    /\ stdin[Len(stdin)] # "nl"
    /\ total_lines = NumLines(stdin)
    /\ total_lines >= 2

\* n * d + c for a small d and c, digit by digit with the carry.
RECURSIVE MulAdd(_, _, _, _)
MulAdd(n, i, c, d) ==
    IF i > Len(n) THEN <<>>
    ELSE LET cur == n[i] * d + c
         IN  << cur % Base >> \o MulAdd(n, i + 1, cur \div Base, d)

\* q is the integer quotient of t by d: t = q * d + r with 0 <= r < d.
IsQuotient(q, t, d) == \E r \in 0..(d - 1) : MulAdd(q, 1, r, d) = t

\* C24: the average of a detailed summary is the integer quotient of the
\* total time in nanoseconds by the line count when there are lines, and
\* the zero duration when there are none.
C24_AverageIsQuotient ==
    pc = "summarized" =>
        LET s == out[Len(out)]
        IN  /\ s.lines = total_lines /\ s.time = total_time
            /\ s.lines > 0 => IsQuotient(s.avg, s.time, s.lines)
            /\ s.lines = 0 => s.avg = ZeroNanos

\* The handler has been invoked and has neither exited nor panicked.
HandlerInFlight == hpc \notin {"idle", "exited", "panicked"}

\* A thread holds the locks in the order total_lines, total_matches, rx.
HoldsInOrder(who) ==
    /\ matches_mx.owner = who => lines_mx.owner = who
    /\ rx_mx.owner = who => matches_mx.owner = who

\* C25: both threads hold their locks in the one order, and while the
\* process runs with the handler in flight at least one of the two threads
\* can take a step: they never wait for each other.
C25_NoDeadlock ==
    /\ HoldsInOrder("main")
    /\ HoldsInOrder("handler")
    /\ (proc = "running" /\ HandlerInFlight) =>
           (ENABLED HandlerStep \/ ENABLED MainStep)

\* The two threads contend: the loop holds total_lines and is about to take
\* total_matches while the handler waits for total_lines.
C25_Witness ==
    /\ pc = "lock_matches"
    /\ lines_mx.owner = "main"
    /\ hpc = "h_lock_lines"
    /\ ~ENABLED HandlerStep

\* The count the snapshots must agree with: matches under a filter, lines
\* without one.
Qualified == IF regex # <<>> THEN total_matches ELSE total_lines

\* C26: while the handler holds the total_lines lock and nothing has drained
\* the channel, the channel holds one snapshot per qualifying line counted
\* and per annotated line printed; and when the handler's drain is the first
\* one, what it drained has that length.
C26_HandlerSeesWholeLines ==
    /\ (lines_mx.owner = "handler" /\ drains = 0) =>
          /\ Len(rx) = Qualified
          /\ Len(rx) = Cardinality(LinesIn(out))
    /\ (hpc \in {"h_plot_deltas", "h_plot_times", "h_exit"} /\ drains = 1) =>
          /\ Len(durations_h) = Qualified
          /\ Len(durations_h) = Cardinality(LinesIn(out))
          /\ \A i \in SummariesBy(out, "handler") :
                /\ out[i].lines = total_lines
                /\ out[i].matches = total_matches

\* Under a filter the handler interrupts after two lines, one of them
\* matching, with input still unread, and its drain, the first, yields one
\* snapshot.
C26_Witness ==
    /\ hpc = "h_plot_deltas"
    /\ drains = 1
    /\ regex # <<>>
    /\ total_lines = 2
    /\ total_matches = 1
    /\ Len(durations_h) = 1
    /\ pos < Len(stdin)

\* C27: once the handler holds the total_lines lock it holds it for as long
\* as the process runs, and from then on the loop changes nothing: the
\* counters, the snapshots sent and the annotated lines printed stay as they
\* are, and a summary the handler prints carries those final counter values.
C27_HandlerKeepsLock ==
    [][ lines_mx.owner = "handler" =>
          /\ proc' = "running" => lines_mx'.owner = "handler"
          /\ UNCHANGED << total_lines, total_matches, sent, sent_log >>
          /\ LinesIn(out') = LinesIn(out)
          /\ \A i \in SummariesBy(out', "handler") :
                /\ out'[i].lines = total_lines
                /\ out'[i].matches = total_matches ]_vars

\* The series a complete plot of the given name carries: one point per
\* snapshot sent so far, in the order of the sends.
CompleteSeries(name) ==
    IF name = "deltas.svg" THEN DeltasOf(sent_log) ELSE TimesOf(sent_log)

\* C28: every plot file written carries the complete series: one point for
\* each snapshot produced, in processing order.
C28_PlotsCarryAllSnapshots ==
    \A i \in 1..Len(files) : files[i].series = CompleteSeries(files[i].name)

====
